---- MODULE Spec2Model ----
(***************************************************************************)
(* Model of smurfs/timeseries/timerseries.py: the frequency extraction     *)
(* loop (recursiveFrequencyFinder), its staleness guard (cutoffCriterion), *)
(* the peak fitter (findAndRemoveMaxFrequency), the minima scan of the     *)
(* signal-to-noise estimate (findNextMinimas) and combineDatasets.         *)
(*                                                                         *)
(* Array indices are Python's (0-based); At(y, k) reads y[k].  Results of  *)
(* the numerical libraries (the periodogram, curve_fit) are inputs drawn   *)
(* from small sets.                                                        *)
(***************************************************************************)
EXTENDS Integers, Sequences, FiniteSets, TLC

VARIABLES
    \* findNextMinimas
    yData, index, counter, lowerMinima, upperMinima, minimaFound, pcM,
    \* findAndRemoveMaxFrequency
    lightCurve, ampSpectrum, popt, arr, retLightCurve, rawPopt, fitCalls, pcF,
    \* recursiveFrequencyFinder
    snrCriterion, mode, snr, fit, frequencyList, saveStuff, spectro,
    dieGracefully, fitLog, interrupts, lostAppends, pc,
    \* combineDatasets
    fList, tList, iList, combined, pcC

minimaVars == <<yData, index, counter, lowerMinima, upperMinima, minimaFound, pcM>>
fitVars == <<lightCurve, ampSpectrum, popt, arr, retLightCurve, rawPopt, fitCalls, pcF>>
loopVars == <<snrCriterion, mode, snr, fit, frequencyList, saveStuff, spectro,
              dieGracefully, fitLog, interrupts, lostAppends, pc>>
combineVars == <<fList, tList, iList, combined, pcC>>
vars == <<minimaVars, fitVars, loopVars, combineVars>>

-----------------------------------------------------------------------------
(* Bounds of the model *)

\* longest power array handed to findNextMinimas
MaxLen == 6
\* power values are 0..MaxPower
MaxPower == 2

-----------------------------------------------------------------------------
(* Helpers *)

Abs(x) == IF x < 0 THEN -x ELSE x

Range(s) == {s[k] : k \in 1..Len(s)}

\* Python's max() over a non-empty array
SeqMax(s) == CHOOSE m \in Range(s) : \A v \in Range(s) : v <= m

\* y[k] with Python's 0-based k, 0 <= k < len(y)
At(y, k) == y[k + 1]

SeqsUpTo(S, n) == UNION {[1..k -> S] : k \in 0..n}

-----------------------------------------------------------------------------
(* The idle values of each function's variables, used by the               *)
(* specifications that do not run that function.                           *)

MinimaIdle ==
    /\ yData = <<>> /\ index = 0 /\ counter = 0
    /\ lowerMinima = 0 /\ upperMinima = 0
    /\ minimaFound = FALSE /\ pcM = "idle"

FitIdle ==
    /\ lightCurve = <<>> /\ ampSpectrum = <<>>
    /\ popt = <<>> /\ arr = <<>> /\ retLightCurve = <<>>
    /\ rawPopt = <<>> /\ fitCalls = 0 /\ pcF = "idle"

LoopIdle ==
    /\ snrCriterion = 0 /\ mode = "" /\ snr = 0 /\ fit = <<>>
    /\ frequencyList = <<>> /\ saveStuff = FALSE /\ spectro = 0
    /\ dieGracefully = FALSE /\ fitLog = <<>> /\ interrupts = 0
    /\ lostAppends = 0 /\ pc = "idle"

CombineIdle ==
    /\ fList = <<>> /\ tList = <<>> /\ iList = <<>>
    /\ combined = <<>> /\ pcC = "idle"

-----------------------------------------------------------------------------
(* findNextMinimas (lines 137-161) and checkMinima (lines 164-165)         *)

\* 10 ** -6 of line 139, in the model's integer power units
PeakTol == 1

\* cap of the scan counter; C10 shows the scan never needs it
MaxCounter == MaxLen + 2

\* int(np.where(abs(yData - max(yData)) < 10 ** -6)[0][0])
PeakIndex(y) ==
    CHOOSE k \in 0..(Len(y) - 1) :
        /\ Abs(At(y, k) - SeqMax(y)) < PeakTol
        /\ \A j \in 0..(k - 1) : ~(Abs(At(y, j) - SeqMax(y)) < PeakTol)

checkMinima(y, c) == At(y, c) < At(y, c + 1) /\ At(y, c) < At(y, c - 1)

\* a boundary fallback that clamps at the 'not found' sentinel
LowerScanClamped(y, negCounter, lower) ==
    IF negCounter - 1 < 0 THEN -1
    ELSE IF checkMinima(y, negCounter) THEN negCounter
    ELSE lower

\* lines 147-150
LowerScan(y, negCounter, lower) ==
    IF negCounter - 1 < 0 THEN negCounter
    ELSE IF checkMinima(y, negCounter) THEN negCounter
    ELSE lower

\* lines 152-155
UpperScan(y, posCounter, upper) ==
    IF posCounter + 1 >= Len(y) THEN posCounter
    ELSE IF checkMinima(y, posCounter) THEN posCounter
    ELSE upper

\* line 139 onwards: max() of an empty array raises, otherwise the scan is set up
FindNextMinimasEnter ==
    /\ pcM = "call"
    /\ IF Len(yData) = 0
       THEN /\ pcM' = "raised"
            /\ UNCHANGED <<index, counter, lowerMinima, upperMinima, minimaFound>>
       ELSE /\ index' = PeakIndex(yData)
            /\ minimaFound' = FALSE
            /\ counter' = 1
            /\ lowerMinima' = -1
            /\ upperMinima' = -1
            /\ pcM' = "loop"
    /\ UNCHANGED <<yData, fitVars, loopVars, combineVars>>

\* one pass of the while loop, lines 144-159
FindNextMinimasIterate ==
    /\ pcM = "loop"
    /\ minimaFound = FALSE
    /\ counter <= MaxCounter
    /\ LET negCounter == index - counter
           posCounter == index + counter
           lower == LowerScan(yData, negCounter, lowerMinima)
           upper == UpperScan(yData, posCounter, upperMinima)
       IN /\ lowerMinima' = lower
          /\ upperMinima' = upper
          /\ minimaFound' = (lower # -1 /\ upper # -1)
          /\ counter' = counter + 1
    /\ UNCHANGED <<yData, index, pcM, fitVars, loopVars, combineVars>>

\* line 161
FindNextMinimasReturn ==
    /\ pcM = "loop"
    /\ minimaFound = TRUE
    /\ pcM' = "returned"
    /\ UNCHANGED <<yData, index, counter, lowerMinima, upperMinima, minimaFound,
                   fitVars, loopVars, combineVars>>

InitMinima ==
    /\ yData \in SeqsUpTo(0..MaxPower, MaxLen)
    /\ index = 0 /\ counter = 0 /\ lowerMinima = 0 /\ upperMinima = 0
    /\ minimaFound = FALSE
    /\ pcM = "call"
    /\ FitIdle /\ LoopIdle /\ CombineIdle

NextMinima ==
    \/ FindNextMinimasEnter
    \/ FindNextMinimasIterate
    \/ FindNextMinimasReturn

SpecMinima == InitMinima /\ [][NextMinima]_vars

\* the interpreter keeps running the function until it returns or raises
FairSpecMinima == SpecMinima /\ WF_vars(NextMinima)

(* Interior local minima, as the claims define them *)
IsInteriorMinimum(y, k) ==
    /\ k >= 1 /\ k <= Len(y) - 2
    /\ At(y, k) < At(y, k - 1) /\ At(y, k) < At(y, k + 1)

MinimaBelow(y, p) == {k \in 0..(p - 1) : IsInteriorMinimum(y, k)}
MinimaAbove(y, p) == {k \in (p + 1)..(Len(y) - 1) : IsInteriorMinimum(y, k)}
SetMax(S) == CHOOSE m \in S : \A v \in S : v <= m
SetMin(S) == CHOOSE m \in S : \A v \in S : m <= v

\* C7: with interior local minima on both sides of the peak, findNextMinimas
\* returns the nearest one below and the nearest one above the peak.
C7_NearestMinimaReturned ==
    (pcM = "returned" /\ MinimaBelow(yData, index) # {} /\ MinimaAbove(yData, index) # {})
        => /\ lowerMinima = SetMax(MinimaBelow(yData, index))
           /\ upperMinima = SetMin(MinimaAbove(yData, index))

\* C8: the pair findNextMinimas returns lies inside the array:
\* 0 <= lowerMinima and upperMinima <= n - 1.
C8_ReturnedIndicesInBounds ==
    pcM = "returned" => (0 <= lowerMinima /\ upperMinima <= Len(yData) - 1)

\* C10: findNextMinimas terminates on every power array: on a non-empty one the
\* scan reaches a step where both minima differ from -1 and returns (without
\* ever needing more than MaxCounter passes), on an empty one it raises.
C10_FindNextMinimasTerminates ==
    /\ <>(pcM = "returned" \/ pcM = "raised")
    /\ [](pcM = "returned" => (Len(yData) > 0 /\ lowerMinima # -1 /\ upperMinima # -1))
    /\ [](pcM = "raised" => Len(yData) = 0)
    /\ [](pcM = "loop" => counter <= Len(yData) + 2)

\* a singleton array: the lower fallback first assigns the sentinel -1 itself,
\* and the scan still returns one pass later
C10_Witness ==
    pcM = "returned" /\ Len(yData) = 1 /\ lowerMinima = -2 /\ upperMinima = 2

-----------------------------------------------------------------------------
(* findMaxPowerFrequency (lines 73-77), sin (lines 168-169) and            *)
(* findAndRemoveMaxFrequency (lines 80-111).                               *)
(*                                                                         *)
(* Angles are counted in quarter turns (pi/2), times in quarters of the    *)
(* time unit and frequencies in cycles per time unit, so that              *)
(* 2*pi*f*x + phase is f*x + phase quarter turns and the sine is exact.    *)

\* number of samples of the light curve
NPoints == 2
\* flux values are 0..MaxFlux
MaxFlux == 1
\* curve_fit returns amplitudes in -MaxAmp..MaxAmp
MaxAmp == 1
\* curve_fit returns frequencies in -MaxFitFreq..MaxFitFreq
MaxFitFreq == 1

\* np.pi, in quarter turns
Pi == 2
\* 10 ** -4 of line 75, in the model's integer power units
MaxTol == 1

\* phases curve_fit can return: below, at and above pi
PhaseSet == {0, Pi, Pi + 1}

SinQ(q) == CASE q = 0 -> 0 [] q = 1 -> 1 [] q = 2 -> 0 [] q = 3 -> -1

\* amp * np.sin(2 * np.pi * f * x + phase)
sin(x, amp, f, phase) == amp * SinQ((f * x + phase) % 4)

\* maxY, maxX of findMaxPowerFrequency; spectrum = <<frequencies, powers>>
findMaxPowerFrequency(spectrum) ==
    LET maxY == SeqMax(spectrum[2])
        first == CHOOSE k \in 1..Len(spectrum[2]) :
                    /\ Abs(spectrum[2][k] - maxY) < MaxTol
                    /\ \A j \in 1..(k - 1) : ~(Abs(spectrum[2][j] - maxY) < MaxTol)
    IN <<maxY, spectrum[1][first]>>

\* lines 103-106
SignCorrect(p) ==
    IF p[1] < 0 \/ p[2] < 0
    THEN <<Abs(p[1]), Abs(p[2]), p[3] + (IF p[3] > Pi THEN -Pi ELSE Pi)>>
    ELSE p

\* a residual that leaves the fitted phase out
ResidualWithoutPhase(lc, p) ==
    <<lc[1], [k \in 1..Len(lc[1]) |-> lc[2][k] - sin(lc[1][k], p[1], p[2], 0)]>>

\* line 109: np.array((lightCurve[0], lightCurve[1] - sin(lightCurve[0], *popt)))
Residual(lc, p) ==
    <<lc[1], [k \in 1..Len(lc[1]) |-> lc[2][k] - sin(lc[1][k], p[1], p[2], p[3])]>>

\* what curve_fit can hand back
OptimizerOutputs == (-MaxAmp..MaxAmp) \X (-MaxFitFreq..MaxFitFreq) \X PhaseSet

\* lines 89-91
FindAndRemoveEnter ==
    /\ pcF = "call"
    /\ LET m == findMaxPowerFrequency(ampSpectrum)
       IN arr' = <<m[1], m[2], 0>>
    /\ popt' = <<-1, -1, -1>>
    /\ pcF' = "loop"
    /\ UNCHANGED <<lightCurve, ampSpectrum, retLightCurve, rawPopt, fitCalls,
                   minimaVars, loopVars, combineVars>>

\* one pass of the while loop, lines 95-109, with curve_fit converging
FindAndRemoveIterate ==
    /\ pcF = "loop"
    /\ (popt[1] < 0 \/ popt[2] < 0)
    /\ \E out \in OptimizerOutputs :
        /\ rawPopt' = out
        /\ fitCalls' = fitCalls + 1
        /\ popt' = SignCorrect(out)
        /\ arr' = SignCorrect(out)
        /\ retLightCurve' = Residual(lightCurve, SignCorrect(out))
    /\ UNCHANGED <<lightCurve, ampSpectrum, pcF, minimaVars, loopVars, combineVars>>

\* lines 96-100: curve_fit raises RuntimeError, which is re-raised
FindAndRemoveRaise ==
    /\ pcF = "loop"
    /\ (popt[1] < 0 \/ popt[2] < 0)
    /\ fitCalls' = fitCalls + 1
    /\ pcF' = "raised"
    /\ UNCHANGED <<lightCurve, ampSpectrum, popt, arr, retLightCurve, rawPopt,
                   minimaVars, loopVars, combineVars>>

\* line 111
FindAndRemoveReturn ==
    /\ pcF = "loop"
    /\ ~(popt[1] < 0 \/ popt[2] < 0)
    /\ pcF' = "returned"
    /\ UNCHANGED <<lightCurve, ampSpectrum, popt, arr, retLightCurve, rawPopt,
                   fitCalls, minimaVars, loopVars, combineVars>>

InitFit ==
    /\ lightCurve \in {<<[k \in 1..NPoints |-> k - 1], flux>> :
                         flux \in [1..NPoints -> 0..MaxFlux]}
    /\ ampSpectrum \in {<<<<1, 2>>, p>> : p \in [1..2 -> 0..1]}
    /\ popt = <<>> /\ arr = <<>> /\ retLightCurve = <<>>
    /\ rawPopt = <<>> /\ fitCalls = 0
    /\ pcF = "call"
    /\ MinimaIdle /\ LoopIdle /\ CombineIdle

NextFit ==
    \/ FindAndRemoveEnter
    \/ FindAndRemoveIterate
    \/ FindAndRemoveRaise
    \/ FindAndRemoveReturn

SpecFit == InitFit /\ [][NextFit]_vars

\* C5: whenever findAndRemoveMaxFrequency returns, the returned amplitude and
\* frequency are >= 0 and the returned light curve is the input flux minus the
\* sinusoid of exactly the returned parameters, at the input's time points.
C5_ReturnedFitNonNegativeAndResidual ==
    pcF = "returned" =>
        /\ popt[1] >= 0 /\ popt[2] >= 0
        /\ retLightCurve[1] = lightCurve[1]
        /\ Len(retLightCurve[2]) = Len(lightCurve[2])
        /\ \A k \in 1..Len(lightCurve[2]) :
              retLightCurve[2][k] =
                  lightCurve[2][k] - sin(lightCurve[1][k], popt[1], popt[2], popt[3])

\* the optimizer put out a negative amplitude and a negative frequency, the
\* function returned, and the fit changes the flux
C5_Witness ==
    /\ pcF = "returned" /\ rawPopt[1] < 0 /\ rawPopt[2] < 0
    /\ retLightCurve[2] # lightCurve[2]

\* C9: the fit findAndRemoveMaxFrequency returns is the output of an optimizer
\* run that itself had non-negative amplitude and frequency (after a
\* correction the optimizer is run again).
C9_ReturnedFitIsOptimizerOutput ==
    pcF = "returned" => (rawPopt[1] >= 0 /\ rawPopt[2] >= 0 /\ popt = rawPopt)

-----------------------------------------------------------------------------
(* cutoffCriterion (lines 172-184) and recursiveFrequencyFinder            *)
(* (lines 207-267).                                                        *)
(*                                                                         *)
(* A fit is <<amplitude, frequency, phase>> (curve_fit's popt), an entry   *)
(* of frequencyList is <<frequency, snr, amplitude, phase>>.  pc is the    *)
(* statement the function is about to run.  fitLog lists every             *)
(* fit-and-subtract step that was executed, interrupts counts the          *)
(* KeyboardInterrupts delivered and lostAppends the appends of line 236    *)
(* that an interrupt pre-empted.                                           *)

\* rounds the model lets the loop run
MaxRounds == 4
\* KeyboardInterrupts delivered to one call
MaxInterrupts == 1

\* snr = 100 of line 228
SnrSentinel == 100

\* smurfs.support: entries compared by the staleness guard
similarFrequenciesCount == 3
\* smurfs.support: threshold on their standard deviation, in the model's units
similarityStdDev == 1

\* values of the snrCriterion parameter: below, between and above the SNRs
\* the model computes, and at the sentinel
CriterionSet == {2, 4, SnrSentinel}
\* values computeSignalToNoise returns
SnrOutputs == {3, 5}
\* fits findAndRemoveMaxFrequency returns
FitOutputs == {<<5, 5, 5>>, <<1, 5, 0>>, <<1, 8, 0>>}
\* kwargs['mode'], or no such key
ModeSet == {"Full", "Normal", "absent"}

RECURSIVE SumSeq(_)
SumSeq(xs) == IF xs = <<>> THEN 0 ELSE Head(xs) + SumSeq(Tail(xs))

RECURSIVE SumSquares(_)
SumSquares(xs) == IF xs = <<>> THEN 0 ELSE Head(xs) * Head(xs) + SumSquares(Tail(xs))

\* np.ndarray.std() < threshold, over all elements (population variance):
\* (n * sum(x^2) - sum(x)^2) / n^2 < threshold^2
StdBelow(xs, threshold) ==
    Len(xs) * SumSquares(xs) - SumSeq(xs) * SumSeq(xs)
        < threshold * threshold * Len(xs) * Len(xs)

RECURSIVE Flatten(_)
\* the elements of a 2-D array, row after row
Flatten(rows) == IF rows = <<>> THEN <<>> ELSE Head(rows) \o Flatten(Tail(rows))

\* frequencyList[-n:]
LastN(list, n) ==
    IF Len(list) <= n THEN list ELSE SubSeq(list, Len(list) - n + 1, Len(list))

\* lines 172-184: np.array(list of 4-tuples) is a count x 4 array and .std()
\* is taken over all of its elements; TRUE means 'go on'
cutoffCriterion(list) ==
    IF Len(list) < similarFrequenciesCount THEN TRUE
    ELSE LET lastFrequencies == LastN(list, similarFrequenciesCount)
         IN ~StdBelow(Flatten(lastFrequencies), similarityStdDev)

\* an entry with amplitude and frequency swapped
RecordEntrySwapped(f, s) == <<f[1], s, f[2], f[3]>>

\* line 236: (fit[1], snr, fit[0], fit[2],)
RecordEntry(f, s) == <<f[2], s, f[1], f[3]>>

\* line 237
SavePolicy(m) == IF m = "absent" THEN TRUE ELSE m = "Full"

\* line 234
WhileTest ==
    /\ pc = "while"
    /\ snr > snrCriterion => Len(fitLog) < MaxRounds
    /\ pc' = IF snr > snrCriterion THEN "top" ELSE "after"
    /\ UNCHANGED <<snrCriterion, mode, snr, fit, frequencyList, saveStuff, spectro,
                   dieGracefully, fitLog, interrupts, lostAppends,
                   minimaVars, fitVars, combineVars>>

\* lines 235-239: in the first round fit is unbound and the bare except
\* takes over; a missing 'mode' key raises after the append
TopOfRound ==
    /\ pc = "top"
    /\ IF fit = <<>>
       THEN /\ saveStuff' = TRUE
            /\ UNCHANGED frequencyList
       ELSE /\ frequencyList' = Append(frequencyList, RecordEntry(fit, snr))
            /\ saveStuff' = SavePolicy(mode)
    /\ pc' = "spectrum"
    /\ UNCHANGED <<snrCriterion, mode, snr, fit, spectro, dieGracefully, fitLog,
                   interrupts, lostAppends, minimaVars, fitVars, combineVars>>

\* lines 235-239: a KeyboardInterrupt raised inside the inner try, before or
\* after the append has happened, is caught by the bare except
InterruptAtTop ==
    /\ pc = "top"
    /\ interrupts < MaxInterrupts
    /\ \E appended \in BOOLEAN :
        /\ fit = <<>> => ~appended
        /\ frequencyList' = IF appended
                            THEN Append(frequencyList, RecordEntry(fit, snr))
                            ELSE frequencyList
        /\ lostAppends' = IF fit # <<>> /\ ~appended
                          THEN lostAppends + 1 ELSE lostAppends
    /\ saveStuff' = TRUE
    /\ interrupts' = interrupts + 1
    /\ pc' = "spectrum"
    /\ UNCHANGED <<snrCriterion, mode, snr, fit, spectro, dieGracefully, fitLog,
                   minimaVars, fitVars, combineVars>>

\* line 240
CalculateSpectrum ==
    /\ pc = "spectrum"
    /\ pc' = "snr"
    /\ UNCHANGED <<snrCriterion, mode, snr, fit, frequencyList, saveStuff, spectro,
                   dieGracefully, fitLog, interrupts, lostAppends,
                   minimaVars, fitVars, combineVars>>

\* line 241
ComputeSignalToNoise ==
    /\ pc = "snr"
    /\ snr' \in SnrOutputs
    /\ pc' = "fit"
    /\ UNCHANGED <<snrCriterion, mode, fit, frequencyList, saveStuff, spectro,
                   dieGracefully, fitLog, interrupts, lostAppends,
                   minimaVars, fitVars, combineVars>>

\* line 242, the fit converging
FitAndSubtract ==
    /\ pc = "fit"
    /\ \E p \in FitOutputs :
        /\ fit' = p
        /\ fitLog' = Append(fitLog, <<p[2], snr, p[1], p[3]>>)
    /\ pc' = "save"
    /\ UNCHANGED <<snrCriterion, mode, snr, frequencyList, saveStuff, spectro,
                   dieGracefully, interrupts, lostAppends,
                   minimaVars, fitVars, combineVars>>

\* line 242, findAndRemoveMaxFrequency raising RuntimeError: no handler of
\* recursiveFrequencyFinder catches it
FitRaises ==
    /\ pc = "fit"
    /\ pc' = "raised"
    /\ UNCHANGED <<snrCriterion, mode, snr, fit, frequencyList, saveStuff, spectro,
                   dieGracefully, fitLog, interrupts, lostAppends,
                   minimaVars, fitVars, combineVars>>

\* lines 244-251: spectro is the round whose spectrum f, t, i were prepared from
SaveRound ==
    /\ pc = "save"
    /\ spectro' = IF saveStuff THEN Len(fitLog) ELSE spectro
    /\ pc' = "cutoff"
    /\ UNCHANGED <<snrCriterion, mode, snr, fit, frequencyList, saveStuff,
                   dieGracefully, fitLog, interrupts, lostAppends,
                   minimaVars, fitVars, combineVars>>

\* line 253
CutoffCheck ==
    /\ pc = "cutoff"
    /\ pc' = IF ~cutoffCriterion(frequencyList) THEN "break" ELSE "while"
    /\ UNCHANGED <<snrCriterion, mode, snr, fit, frequencyList, saveStuff, spectro,
                   dieGracefully, fitLog, interrupts, lostAppends,
                   minimaVars, fitVars, combineVars>>

\* line 254
Break ==
    /\ pc = "break"
    /\ pc' = "after"
    /\ UNCHANGED <<snrCriterion, mode, snr, fit, frequencyList, saveStuff, spectro,
                   dieGracefully, fitLog, interrupts, lostAppends,
                   minimaVars, fitVars, combineVars>>

\* lines 256-261 and 267: in 'Normal' mode amp is read, which is unbound when
\* no round ran (UnboundLocalError is not a KeyError)
AfterLoop ==
    /\ pc = "after"
    /\ pc' = IF mode = "Normal" /\ fitLog = <<>> THEN "raised" ELSE "returned"
    /\ UNCHANGED <<snrCriterion, mode, snr, fit, frequencyList, saveStuff, spectro,
                   dieGracefully, fitLog, interrupts, lostAppends,
                   minimaVars, fitVars, combineVars>>

\* lines 262-265: a KeyboardInterrupt raised anywhere else inside the outer try
Interrupt ==
    /\ pc \in {"while", "spectrum", "snr", "fit", "save", "cutoff", "break", "after"}
    /\ interrupts < MaxInterrupts
    /\ dieGracefully' = TRUE
    /\ interrupts' = interrupts + 1
    /\ pc' = "interrupted"
    /\ UNCHANGED <<snrCriterion, mode, snr, fit, frequencyList, saveStuff, spectro,
                   fitLog, lostAppends, minimaVars, fitVars, combineVars>>

\* the state at line 234, before the first test of the while condition
Init ==
    /\ snrCriterion \in CriterionSet
    /\ mode \in ModeSet
    /\ snr = SnrSentinel
    /\ fit = <<>>
    /\ frequencyList = <<>>
    /\ saveStuff = FALSE
    /\ spectro = 0
    /\ dieGracefully = FALSE
    /\ fitLog = <<>> /\ interrupts = 0 /\ lostAppends = 0
    /\ pc = "while"
    /\ MinimaIdle /\ FitIdle /\ CombineIdle

Next ==
    \/ WhileTest
    \/ TopOfRound
    \/ InterruptAtTop
    \/ CalculateSpectrum
    \/ ComputeSignalToNoise
    \/ FitAndSubtract
    \/ FitRaises
    \/ SaveRound
    \/ CutoffCheck
    \/ Break
    \/ AfterLoop
    \/ Interrupt

Spec == Init /\ [][Next]_vars

\* the claims' staleness: at least similarFrequenciesCount entries, and the
\* standard deviation of the last ones' frequencies below similarityStdDev
FrequenciesStale(list) ==
    /\ Len(list) >= similarFrequenciesCount
    /\ StdBelow([k \in 1..similarFrequenciesCount |->
                    LastN(list, similarFrequenciesCount)[k][1]], similarityStdDev)

\* C1: at the end of a round the guard stops the loop exactly when the record
\* has at least similarFrequenciesCount entries and the standard deviation of
\* the frequencies of the last similarFrequenciesCount entries is below
\* similarityStdDev, whatever their SNR, amplitude and phase.
C1_StalenessGuardOnFrequencies ==
    /\ pc = "break" => FrequenciesStale(frequencyList)
    /\ (pc = "while" /\ fitLog # <<>>) => ~FrequenciesStale(frequencyList)

Front(s) == IF s = <<>> THEN <<>> ELSE SubSeq(s, 1, Len(s) - 1)

\* C2 as claimed: on a return without interrupt the record holds every fit,
\* the final round's included.
C2_EveryFitRecorded ==
    (pc = "returned" /\ interrupts = 0) => frequencyList = fitLog

\* C2 as amended: a fit is appended at the top of the round after it, so the
\* final round's fit is never in the returned record: its length is the
\* number of fit-and-subtract steps minus one (zero when no round ran), less
\* the appends a swallowed interrupt pre-empted, and without such a loss the
\* record is the list of all fits but the last, as (frequency, SNR,
\* amplitude, phase).
C2_AllButFinalFitRecorded ==
    pc = "returned" =>
        /\ Len(frequencyList) = Len(Front(fitLog)) - lostAppends
        /\ lostAppends = 0 => frequencyList = Front(fitLog)

\* the loop ended because the round's SNR is <= snrCriterion, after two rounds
C2_Witness ==
    /\ pc = "returned" /\ interrupts = 0 /\ snr <= snrCriterion
    /\ Len(fitLog) = 2 /\ Len(frequencyList) = 1

\* C3: once a KeyboardInterrupt was delivered to the running loop, the loop is
\* in its interrupted return with defines.dieGracefully set.
C3_InterruptEndsLoop ==
    interrupts > 0 => (pc = "interrupted" /\ dieGracefully = TRUE)

\* C4: for every snrCriterion, at least one full round has been executed when
\* recursiveFrequencyFinder returns.
C4_AtLeastOneRound ==
    pc = "returned" => Len(fitLog) >= 1

-----------------------------------------------------------------------------
(* combineDatasets (lines 270-289).                                        *)
(*                                                                         *)
(* A numpy array is [shape, data]: shape is <<n>> for a 1-D array and      *)
(* <<rows, columns>> for a matrix, data its elements row after row.        *)

\* longest input list
MaxList == 2

Array1(d) == [shape |-> <<Len(d)>>, data |-> d]

\* arrays the three input lists are drawn from
FrequencyPool == {Array1(<<1, 2, 3>>), Array1(<<4>>)}
TimePool == {Array1(<<0, 1>>), Array1(<<2, 3>>), Array1(<<4>>)}
IntensityPool == {Array1(<<1, 2>>), Array1(<<3, 4>>), Array1(<<5>>)}

Rows(a) == IF Len(a.shape) = 1 THEN 1 ELSE a.shape[1]
Columns(a) == a.shape[Len(a.shape)]

\* np.hstack with its arguments the other way round
hstackReversed(a, b) ==
    [shape |-> <<a.shape[1] + b.shape[1]>>, data |-> b.data \o a.data]

\* np.hstack((a, b)) of two 1-D arrays
hstack(a, b) ==
    [shape |-> <<a.shape[1] + b.shape[1]>>, data |-> a.data \o b.data]

\* np.row_stack((a, b)): <<TRUE, the stacked matrix>>, or <<FALSE, a>> when the
\* row lengths differ and numpy raises ValueError
row_stack(a, b) ==
    IF Columns(a) # Columns(b) THEN <<FALSE, a>>
    ELSE <<TRUE, [shape |-> <<Rows(a) + Rows(b), Columns(a)>>,
                  data |-> a.data \o b.data]>>

RECURSIVE HStackLoop(_, _)
\* lines 277-281, t being bound to acc
HStackLoop(acc, rest) ==
    IF rest = <<>> THEN acc ELSE HStackLoop(hstack(acc, Head(rest)), Tail(rest))

RECURSIVE RowStackLoop(_, _)
\* lines 283-287, intensity being bound to acc
RowStackLoop(acc, rest) ==
    IF rest = <<>> THEN <<TRUE, acc>>
    ELSE LET st == row_stack(acc, Head(rest))
         IN IF st[1] THEN RowStackLoop(st[2], Tail(rest)) ELSE st

\* the whole function: raise on an empty list (line 272), otherwise the two
\* loops, whose first pass binds t and intensity to the first element
CombineDatasets ==
    /\ pcC = "call"
    /\ IF fList = <<>> \/ tList = <<>> \/ iList = <<>>
       THEN pcC' = "raised" /\ UNCHANGED combined
       ELSE LET f == fList[1]
                t == HStackLoop(Head(tList), Tail(tList))
                intensity == RowStackLoop(Head(iList), Tail(iList))
            IN IF intensity[1]
               THEN pcC' = "returned" /\ combined' = <<f, t, intensity[2]>>
               ELSE pcC' = "raised" /\ UNCHANGED combined
    /\ UNCHANGED <<fList, tList, iList, minimaVars, fitVars, loopVars>>

InitCombine ==
    /\ fList \in SeqsUpTo(FrequencyPool, MaxList)
    /\ tList \in SeqsUpTo(TimePool, MaxList)
    /\ iList \in SeqsUpTo(IntensityPool, MaxList)
    /\ combined = <<>>
    /\ pcC = "call"
    /\ MinimaIdle /\ FitIdle /\ LoopIdle

NextCombine == CombineDatasets

SpecCombine == InitCombine /\ [][NextCombine]_vars

RECURSIVE DataOf(_)
\* the elements of a list of arrays, array after array
DataOf(list) == IF list = <<>> THEN <<>> ELSE Head(list).data \o DataOf(Tail(list))

Concatenation(list) == Array1(DataOf(list))

\* the matrix whose rows are the arrays of the list
MatrixOfRows(list) ==
    [shape |-> <<Len(list), Columns(list[1])>>, data |-> DataOf(list)]

SameLengths(list) == \A k \in 1..Len(list) : Columns(list[k]) = Columns(list[1])

AnyEmpty == fList = <<>> \/ tList = <<>> \/ iList = <<>>

\* C6 as claimed: for all non-empty lists combineDatasets returns fList[0],
\* the concatenation of tList and the matrix whose rows are the arrays of
\* iList; with an empty list it raises.
C6_CombineAsClaimed ==
    pcC \in {"returned", "raised"} =>
        /\ AnyEmpty => pcC = "raised"
        /\ ~AnyEmpty =>
              /\ pcC = "returned"
              /\ combined = <<fList[1], Concatenation(tList), MatrixOfRows(iList)>>

\* C6 as amended: with an empty list it raises; with non-empty lists of 1-D
\* arrays it raises too when the arrays of iList differ in length; otherwise
\* it returns fList[0], the concatenation of tList, and for intensity the
\* matrix of the rows of iList when iList has two or more arrays, and
\* iList[0] itself, still 1-D, when iList has one.
C6_CombineAmended ==
    pcC \in {"returned", "raised"} =>
        /\ AnyEmpty => pcC = "raised"
        /\ (~AnyEmpty /\ ~SameLengths(iList)) => pcC = "raised"
        /\ (~AnyEmpty /\ SameLengths(iList)) =>
              /\ pcC = "returned"
              /\ combined[1] = fList[1]
              /\ combined[2] = Concatenation(tList)
              /\ combined[3] = IF Len(iList) = 1 THEN iList[1] ELSE MatrixOfRows(iList)

\* the example of the claim, intensities in tenths
C6_Witness ==
    /\ pcC = "returned"
    /\ fList = <<Array1(<<1, 2, 3>>)>>
    /\ tList = <<Array1(<<0, 1>>), Array1(<<2, 3>>)>>
    /\ iList = <<Array1(<<1, 2>>), Array1(<<3, 4>>)>>
    /\ combined = <<Array1(<<1, 2, 3>>), Array1(<<0, 1, 2, 3>>),
                    [shape |-> <<2, 2>>, data |-> <<1, 2, 3, 4>>]>>

====
